---- MODULE Spec2Model ----
(***************************************************************************)
(* RealTimePerformanceMonitor (src/real-time-performance-monitor.py):      *)
(* the sample buffer, the metrics table, the alert list and the operations *)
(* that feed them (add_metric, check_alerts, create_alert, check_endpoint, *)
(* detect_anomalies, generate_predictive_alerts), what they send out       *)
(* (store_alert, send_notifications, broadcast_metric), the configuration  *)
(* they read (load_config) and the monitoring threads that call them.      *)
(*                                                                         *)
(* Time is counted in whole hours.  Sample and alert values are integers.  *)
(* A sample keeps metric_type, value, source and timestamp (unit and       *)
(* metadata are never read back by the monitor).  An alert keeps alert_id, *)
(* metric_type, severity, current_value, message, timestamp, resolved and  *)
(* resolved_at (threshold is only stored and notified).  As in the         *)
(* dataclass PerformanceAlert, an alert has NO field `source`: the source  *)
(* given to create_alert survives only inside alert_id.                    *)
(***************************************************************************)
EXTENDS Integers, Sequences, FiniteSets, TLC

VARIABLES
    metrics_buffer,   \* self.metrics_buffer: list of PerformanceMetric
    metrics_table,    \* rows of the sqlite table `metrics`, in insertion order
    alerts,           \* self.alerts: list of PerformanceAlert
    now,              \* the wall clock, in hours
    adds,             \* number of add_metric calls made so far
    last,             \* the call that was made last and how it ended
    monitoring,       \* self.monitoring
    pc,               \* per monitoring thread: where it stands
    pending,          \* per monitoring thread: the create_alert calls it still has to make
    config,           \* self.config, as load_config returned it
    websocket_clients,\* self.websocket_clients
    log,              \* what the monitor has sent out so far, in order
    faults,           \* what currently fails outside the monitor
    threads,          \* the threads start_monitoring has started, in start order
    metrics_history,  \* AIPerformanceMonitor.metrics_history
    report            \* what the last monitor_once of the AIPerformanceMonitor returned

vars == <<metrics_buffer, metrics_table, alerts, now, adds, last, monitoring, pc, pending,
          config, websocket_clients, log, faults, threads, metrics_history, report>>

----------------------------------------------------------------------------
(* Bounds of the model *)

\* config["monitoring"]["buffer_size"], scaled down from the default 1000
BufferSize == 12
\* add_metric calls explored after the warm-up
MaxAdds == 2
\* the clock runs from 0 to MaxNow
MaxNow == 1
\* length cap of the alert list (only a faulty dedup gate can reach it)
MaxAlerts == 4
\* samples added by whole collector ticks
MaxTickSamples == 10
\* threads that start_monitoring calls may have started in all
MaxThreads == 6
\* monitor_once calls of the standalone AIPerformanceMonitor
MaxHistory == 11

(* Program constants *)

MinAnomalyPoints == 10
ZLimit == 3
AnomalyWindowHours == 1
MinHistoryPoints == 20
HistoryHours == 24
PredictHorizon == 6
DefaultCritical == 90
AvailabilityUp == 100
AvailabilityDown == 0
RetentionDays == 30
HistoryMaxLen == 1000
AnomalyThreshold == 2
MinHistorySamples == 10
RecentWindow == 50

None == "None"

\* default_config of load_config, for the keys the monitor reads back:
\*   alerts         the threshold rule of each metric type
\*   endpoints      the endpoints to check, in list order
\*   notifications  the channels whose "enabled" is True (none by default)
\*   retention_days config["monitoring"]["retention_days"]
\*   websocket      config.get("websocket", {}).get("enabled", False)
DefaultConfig ==
    [ alerts |->
        [ cpu_usage     |-> [warning |-> 70,   critical |-> 90],
          memory_usage  |-> [warning |-> 75,   critical |-> 90],
          response_time |-> [warning |-> 2000, critical |-> 5000],
          error_rate    |-> [warning |-> 1,    critical |-> 5],
          disk_usage    |-> [warning |-> 80,   critical |-> 95] ],
      endpoints |->
        << [name |-> "api",     url |-> "https://api.example.com/health"],
           [name |-> "website", url |-> "https://example.com"] >>,
      notifications |-> {},
      retention_days |-> RetentionDays,
      websocket |-> FALSE ]

\* _deep_merge(base, update) on one threshold rule: its values are numbers, so
\* every key of the update is assigned (base[key] = value)
MergeRule(base, update) ==
    [k \in DOMAIN base \cup DOMAIN update |->
        IF k \in DOMAIN update THEN update[k] ELSE base[k]]

\* _deep_merge(base, update) on config["alerts"]: the rule of a metric type that
\* both have is merged key by key, the rule of a new metric type is assigned
MergeAlerts(base, update) ==
    [m \in DOMAIN base \cup DOMAIN update |->
        IF m \notin DOMAIN update THEN base[m]
        ELSE IF m \in DOMAIN base THEN MergeRule(base[m], update[m])
        ELSE update[m]]

\* load_config(config_path): the user's configuration (a dict with "alerts",
\* "endpoints", both or neither; the empty dict when there is no file) merged
\* into default_config.  "endpoints" is a list: it replaces the default list.
\* Nothing is validated.
LoadConfig(user) ==
    [DefaultConfig EXCEPT
        !.alerts    = IF "alerts" \in DOMAIN user THEN MergeAlerts(@, user.alerts) ELSE @,
        !.endpoints = IF "endpoints" \in DOMAIN user THEN user.endpoints ELSE @]

\* self.config["alerts"]
AlertConfig == config.alerts

\* the names of the endpoints of the default configuration
Endpoints == {DefaultConfig.endpoints[i].name : i \in 1..Len(DefaultConfig.endpoints)}

\* the metric types generate_predictive_alerts walks through, in its order
PredictedTypes == <<"cpu_usage", "memory_usage", "disk_usage">>

(* Inputs explored *)

\* cpu_usage readings: below warning, between warning and critical, above critical
CpuValues == {50, 75, 95}
\* response times in ms: below warning, between, above critical
ResponseTimes == {100, 3000, 6000}
\* (metric_type, value, source) that check_alerts is called with
ThresholdInputs ==
    ({"cpu_usage"} \X CpuValues \X {"system"})
        \cup ({"response_time"} \X ResponseTimes \X Endpoints)

----------------------------------------------------------------------------
(* Data *)

\* PerformanceMetric(timestamp, metric_type, value, unit, source, metadata)
Metric(m, v, s, t) ==
    [metric_type |-> m, value |-> v, source |-> s, timestamp |-> t]

\* PerformanceAlert(alert_id, metric_type, severity, threshold, current_value,
\* message, timestamp): resolved = False and resolved_at = None by default.
\* alert_id is f"{metric_type}_{source}_{int(time.time())}"; message keeps the
\* kind of text and the name it mentions.
Alert(m, sev, cur, kind, about, s, t) ==
    [ alert_id      |-> <<m, s, t>>,
      metric_type   |-> m,
      severity      |-> sev,
      current_value |-> cur,
      message       |-> [kind |-> kind, about |-> about],
      timestamp     |-> t,
      resolved      |-> FALSE,
      resolved_at   |-> None ]

\* the (metric_type, source) key an alert was created for, read off its alert_id
KeyOf(a) == <<a.alert_id[1], a.alert_id[2]>>

----------------------------------------------------------------------------
(* create_alert *)

\* A faulty variant of the dedup check: every alert counts as new.
ExistingAlertUnchecked(as, m, s) == None

\* existing_alert = next((a for a in self.alerts if not a.resolved and
\*     a.metric_type == metric_type and a.source == source), None)
\* The conjunction is evaluated left to right: for the first unresolved alert of
\* the same metric type Python reads a.source, which PerformanceAlert does not
\* have, and the call ends in AttributeError.  With no such alert the result is
\* None.  An alert is therefore never "found".
ExistingAlert(as, m, s) ==
    IF \E i \in 1..Len(as) : ~as[i].resolved /\ as[i].metric_type = m
    THEN "AttributeError"
    ELSE None

\* one create_alert call: its arguments (threshold left out)
CreateCall(m, sev, cur, kind, about, s) ==
    [metric_type |-> m, severity |-> sev, current_value |-> cur,
     kind |-> kind, about |-> about, source |-> s]

\* create_alert(metric_type, severity, threshold, current_value, message, source)
\* called at time t on the alert list as: the list afterwards and whether the
\* call raised.  store_alert and send_notifications do not touch the list.
CreateAlert(as, c, t) ==
    LET existing == ExistingAlert(as, c.metric_type, c.source) IN
    IF existing = "AttributeError" THEN [alerts |-> as, raised |-> TRUE]
    ELSE IF existing # None THEN [alerts |-> as, raised |-> FALSE]
    ELSE [alerts |-> Append(as, Alert(c.metric_type, c.severity, c.current_value,
                                      c.kind, c.about, c.source, t)),
          raised |-> FALSE]

\* the create_alert calls of one caller, made one after the other until one
\* raises: the exception leaves the caller and the remaining calls are not made
RECURSIVE RunCalls(_, _, _)
RunCalls(as, calls, t) ==
    IF calls = <<>> THEN [alerts |-> as, raised |-> FALSE]
    ELSE LET r == CreateAlert(as, Head(calls), t) IN
         IF r.raised THEN r ELSE RunCalls(r.alerts, Tail(calls), t)

----------------------------------------------------------------------------
(* store_alert, send_notifications: what create_alert does after the append *)

\* one entry of the log: what was done, about which alert or sample, which
\* websocket clients it reached, and whether it went through
Event(op, about, to, ok) == [op |-> op, about |-> about, to |-> to, ok |-> ok]

\* nothing fails: the INSERT of store_alert goes through, and so does every
\* requests.post of a notification channel
NoFaults == [store_alert |-> FALSE, channels |-> {}]

\* the channels in the order send_notifications tries them
Channels == <<"email", "slack", "webhook">>

\* send_email_notification only logs; send_slack_notification and
\* send_webhook_notification end in requests.post, which can raise
FallibleChannels == {"slack", "webhook"}

\* A faulty variant of store_alert without its try/except: a failing INSERT leaves
\* create_alert before send_notifications is called.
AfterAppendUnguarded(alert_id, notifications) ==
    IF faults.store_alert THEN <<Event("store_alert", alert_id, {}, FALSE)>>
    ELSE <<Event("store_alert", alert_id, {}, TRUE)>> \o notifications

\* The body of the try block of send_notifications from one channel on: a
\* channel that is not enabled is passed over, an enabled one is tried, and the
\* exception of a failing send leaves the try block (it is logged by the one
\* except clause), so that the channels after it are not tried.
RECURSIVE ChannelAttempts(_, _)
ChannelAttempts(alert_id, channels) ==
    IF channels = <<>> THEN <<>>
    ELSE IF Head(channels) \notin config.notifications
        THEN ChannelAttempts(alert_id, Tail(channels))
    ELSE IF Head(channels) \in faults.channels
        THEN <<Event(Head(channels), alert_id, {}, FALSE)>>
    ELSE <<Event(Head(channels), alert_id, {}, TRUE)>>
            \o ChannelAttempts(alert_id, Tail(channels))

\* A faulty variant of send_notifications that tries a failed send a second time.
SendNotificationsRetrying(alert_id) ==
    LET attempts == ChannelAttempts(alert_id, Channels) IN
        <<Event("send_notifications", alert_id, {}, TRUE)>> \o attempts
            \o (IF attempts # <<>> /\ ~attempts[Len(attempts)].ok
                    THEN <<attempts[Len(attempts)]>> ELSE <<>>)

\* send_notifications(alert): never raises
SendNotifications(alert_id) ==
    <<Event("send_notifications", alert_id, {}, TRUE)>>
        \o ChannelAttempts(alert_id, Channels)

\* self.store_alert(alert); self.send_notifications(alert): the INSERT of
\* store_alert may fail, the exception is logged and swallowed
AfterAppend(alert_id, notifications) ==
    <<Event("store_alert", alert_id, {}, ~faults.store_alert)>> \o notifications

\* what a caller's create_alert calls have sent out: for each alert appended,
\* in order, store_alert and send_notifications
RECURSIVE CreateEvents(_, _)
CreateEvents(before, after) ==
    IF Len(after) <= Len(before) THEN <<>>
    ELSE CreateEvents(before, SubSeq(after, 1, Len(after) - 1))
            \o AfterAppend(after[Len(after)].alert_id,
                           SendNotifications(after[Len(after)].alert_id))

----------------------------------------------------------------------------
(* broadcast_metric *)

\* The clients for which asyncio.create_task(client.send(message)) returns a
\* task.  broadcast_metric is called by add_metric in a monitoring thread,
\* which runs no event loop: asyncio.create_task raises RuntimeError
\* ("no running event loop") for every client.
Scheduled(clients) == {}

\* broadcast_metric(metric): with no client it returns at once; otherwise every
\* client whose create_task raises is discarded
BroadcastMetric(clients, metric) ==
    IF clients = {} THEN [clients |-> clients, events |-> <<>>]
    ELSE [ clients |-> Scheduled(clients),
           events  |-> <<Event("broadcast_metric", metric, Scheduled(clients), TRUE)>> ]

\* the broadcasts of several add_metric calls, one after the other
RECURSIVE BroadcastAll(_, _)
BroadcastAll(clients, metrics) ==
    IF metrics = <<>> THEN [clients |-> clients, events |-> <<>>]
    ELSE LET b    == BroadcastMetric(clients, Head(metrics))
             rest == BroadcastAll(b.clients, Tail(metrics))
         IN  [clients |-> rest.clients, events |-> b.events \o rest.events]

----------------------------------------------------------------------------
(* check_alerts *)

\* value >= thresholds.get(bound, float('inf')): a rule without the bound is
\* never reached
Reaches(thresholds, bound, v) ==
    bound \in DOMAIN thresholds /\ v >= thresholds[bound]

\* A faulty variant that tests the warning bound first.
ThresholdSeverityWarningFirst(m, v) ==
    IF m \notin DOMAIN AlertConfig THEN None
    ELSE IF Reaches(AlertConfig[m], "warning", v) THEN "warning"
    ELSE IF Reaches(AlertConfig[m], "critical", v) THEN "critical"
    ELSE None

\* The branch check_alerts takes for a value: critical first, then warning.
ThresholdSeverity(m, v) ==
    IF m \notin DOMAIN AlertConfig THEN None
    ELSE IF Reaches(AlertConfig[m], "critical", v) THEN "critical"
    ELSE IF Reaches(AlertConfig[m], "warning", v) THEN "warning"
    ELSE None

\* the create_alert calls of check_alerts(metric_type, value, source): one for
\* a value at or above a bound, none below
CheckAlertsCalls(m, v, s) ==
    LET sev == ThresholdSeverity(m, v) IN
    IF sev = None THEN <<>>
    ELSE <<CreateCall(m, sev, v, "threshold", m, s)>>

\* check_alerts(metric_type, value, source) at time t
CheckAlertsOn(as, m, v, s, t) == RunCalls(as, CheckAlertsCalls(m, v, s), t)

----------------------------------------------------------------------------
(* add_metric *)

\* A faulty variant that keeps the head of the buffer: self.metrics_buffer[:buffer_size].
TruncateKeepingOldest(buf) ==
    IF Len(buf) > BufferSize THEN SubSeq(buf, 1, BufferSize) ELSE buf

\* self.metrics_buffer[-buffer_size:] when the buffer is over its size
Truncate(buf) ==
    IF Len(buf) > BufferSize
    THEN SubSeq(buf, Len(buf) - BufferSize + 1, Len(buf))
    ELSE buf

\* add_metric at time t: append to the buffer, store_metric (the INSERT may
\* fail: the exception is logged and swallowed), broadcast_metric (no websocket
\* client is connected: the server is off by default), truncate the buffer.
AddMetricOn(st, m, v, s, t, stored) ==
    LET metric == Metric(m, v, s, t) IN
    [ buffer |-> Truncate(Append(st.buffer, metric)),
      table  |-> IF stored THEN Append(st.table, metric) ELSE st.table ]

Store == [buffer |-> metrics_buffer, table |-> metrics_table]

Call(op, m, v, s, outcome, raised) ==
    [op |-> op, metric_type |-> m, value |-> v, source |-> s,
     outcome |-> outcome, raised |-> raised]

----------------------------------------------------------------------------
(* detect_anomalies *)

RECURSIVE SumOf(_)
SumOf(xs) == IF xs = <<>> THEN 0 ELSE Head(xs) + SumOf(Tail(xs))

RECURSIVE SumSq(_)
SumSq(xs) == IF xs = <<>> THEN 0 ELSE Head(xs) * Head(xs) + SumSq(Tail(xs))

\* recent_metrics: the buffer's samples of the last hour, in buffer order
RecentMetrics(buf, t) ==
    SelectSeq(buf, LAMBDA x : x.timestamp > t - AnomalyWindowHours)

OfType(ms, m) == SelectSeq(ms, LAMBDA x : x.metric_type = m)

ValuesOf(ms) == [i \in 1..Len(ms) |-> ms[i].value]

\* the keys of metrics_by_type in dict order: by first occurrence in recent
RECURSIVE TypesInOrder(_, _)
TypesInOrder(ms, seen) ==
    IF ms = <<>> THEN <<>>
    ELSE IF Head(ms).metric_type \in seen THEN TypesInOrder(Tail(ms), seen)
    ELSE <<Head(ms).metric_type>>
            \o TypesInOrder(Tail(ms), seen \cup {Head(ms).metric_type})

\* n * (n - 1) * variance of the values: statistics.stdev(values) > 0 exactly
\* when this is > 0
SpreadOf(values) ==
    Len(values) * SumSq(values) - SumOf(values) * SumOf(values)

\* z_score = abs((value - mean) / stdev) if stdev > 0 else 0;  z_score > 3.
\* With n values of sum S, mean = S / n and stdev^2 = SpreadOf / (n (n - 1)), so
\* z > 3 is  (n - 1) (n value - S)^2 > 9 n SpreadOf, in integers.
ZScoreAbove(value, values) ==
    LET n == Len(values)
        S == SumOf(values)
    IN  /\ SpreadOf(values) > 0
        /\ (n - 1) * (n * value - S) * (n * value - S)
               > ZLimit * ZLimit * n * SpreadOf(values)

\* A faulty variant that forgets to group by metric type: every recent sample is judged
\* against all recent values.
AnomaliesOfTypeUngrouped(recent, m) ==
    LET values == ValuesOf(recent) IN
    IF Len(values) < MinAnomalyPoints THEN <<>>
    ELSE SelectSeq(OfType(recent, m), LAMBDA x : ZScoreAbove(x.value, values))

\* One round of the outer loop: for one metric type, the samples for which
\* create_alert is called, in order.  Fewer than 10 values: none (continue).
AnomaliesOfType(recent, m) ==
    LET values == ValuesOf(OfType(recent, m)) IN
    IF Len(values) < MinAnomalyPoints THEN <<>>
    ELSE SelectSeq(OfType(recent, m), LAMBDA x : ZScoreAbove(x.value, values))

\* all create_alert calls of one detect_anomalies run, in call order
RECURSIVE AnomalyCalls(_, _)
AnomalyCalls(recent, types) ==
    IF types = <<>> THEN <<>>
    ELSE AnomaliesOfType(recent, Head(types)) \o AnomalyCalls(recent, Tail(types))

\* create_alert(metric.metric_type, "warning", mean + 3 stdev, metric.value,
\* "Anomaly detected ...", metric.source) for each of them
DetectAnomaliesCalls(buf, t) ==
    LET recent == RecentMetrics(buf, t)
        hits   == AnomalyCalls(recent, TypesInOrder(recent, {}))
    IN  [i \in 1..Len(hits) |->
            CreateCall(hits[i].metric_type, "warning", hits[i].value,
                       "anomaly", hits[i].metric_type, hits[i].source)]

DetectAnomaliesOn(as, buf, t) == RunCalls(as, DetectAnomaliesCalls(buf, t), t)

----------------------------------------------------------------------------
(* generate_predictive_alerts *)

\* get_metric_history(metric_type, hours=24): the rows of the type with
\* timestamp > now - 24 h, ORDER BY timestamp (rows are inserted in time order)
MetricHistory(tab, m, t) ==
    SelectSeq(tab, LAMBDA x : x.metric_type = m /\ x.timestamp > t - HistoryHours)

\* A faulty variant that keeps only the n == 0 test.
InsufficientHistoryEmptyOnly(history) == Len(history) = 0

\* if len(historical_data) < 20: continue
InsufficientHistory(history) == Len(history) < MinHistoryPoints

\* times = [(datetime.now() - m.timestamp) in hours for m in historical_data]
TimesOf(history, t) == [i \in 1..Len(history) |-> t - history[i].timestamp]

RECURSIVE SumProd(_, _)
SumProd(xs, ys) ==
    IF xs = <<>> THEN 0 ELSE Head(xs) * Head(ys) + SumProd(Tail(xs), Tail(ys))

\* slope = SlopeNum / SlopeDen when SlopeDen # 0, else 0
SlopeNum(times, values) ==
    Len(times) * SumProd(times, values) - SumOf(times) * SumOf(values)

SlopeDen(times) == Len(times) * SumSq(times) - SumOf(times) * SumOf(times)

\* predicted_value = values[-1] + slope * 6, rounded down to an integer
PredictedValue(history, t) ==
    LET times  == TimesOf(history, t)
        values == ValuesOf(history)
        den    == SlopeDen(times)
    IN  IF den = 0 THEN values[Len(values)]
        ELSE values[Len(values)]
                + ((PredictHorizon * SlopeNum(times, values)) \div den)

\* predicted_value >= critical_threshold, exactly (SlopeDen is never negative)
PredictionReaches(history, t, critical) ==
    LET times  == TimesOf(history, t)
        values == ValuesOf(history)
        den    == SlopeDen(times)
    IN  IF den = 0 THEN values[Len(values)] >= critical
        ELSE values[Len(values)] * den + PredictHorizon * SlopeNum(times, values)
                >= critical * den

\* self.config["alerts"][metric_type].get("critical", 90)
CriticalOf(m) ==
    IF "critical" \in DOMAIN AlertConfig[m] THEN AlertConfig[m].critical
    ELSE DefaultCritical

\* the loop over the metric types: the create_alert calls it makes, in order
\* (create_alert does not write the metrics table, so every history read of one
\* run sees the same rows)
RECURSIVE PredictionCalls(_, _, _)
PredictionCalls(tab, types, t) ==
    IF types = <<>> THEN <<>>
    ELSE LET m       == Head(types)
             history == MetricHistory(tab, m, t)
         IN  IF InsufficientHistory(history) \/ Len(history) = 0
                THEN PredictionCalls(tab, Tail(types), t)
             ELSE IF m \in DOMAIN AlertConfig
                       /\ PredictionReaches(history, t, CriticalOf(m))
                THEN <<CreateCall(m, "warning", PredictedValue(history, t),
                                  "prediction", m, "prediction")>>
                        \o PredictionCalls(tab, Tail(types), t)
             ELSE PredictionCalls(tab, Tail(types), t)

GeneratePredictiveAlertsCalls(tab, t) ==
    PredictionCalls(tab, [i \in 1..Len(PredictedTypes) |-> PredictedTypes[i]], t)

GeneratePredictiveAlertsOn(as, tab, t) ==
    RunCalls(as, GeneratePredictiveAlertsCalls(tab, t), t)

----------------------------------------------------------------------------
(* check_endpoint *)

\* check_endpoint(endpoint) at time t.  outcome is what requests.get ends in:
\*   "ok"          a response with status_code < 400, after rt ms
\*   "http_error"  a response with status_code >= 400, after rt ms
\*   "timeout"     requests.exceptions.Timeout
\*   "conn_error"  any other exception of requests.get
\* An exception raised inside the try block (by create_alert or check_alerts)
\* is caught by `except Exception` and logged.  An exception raised by the
\* create_alert of the `except Timeout` handler leaves check_endpoint.
\* The availability alerts are created without a source: source = "system".
CheckEndpointCalls(e, outcome, rt) ==
    IF outcome = "ok" THEN CheckAlertsCalls("response_time", rt, e)
    ELSE IF outcome = "http_error" THEN
        <<CreateCall("availability", "critical", AvailabilityDown, "status", e, "system")>>
            \o CheckAlertsCalls("response_time", rt, e)
    ELSE IF outcome = "timeout" THEN
        <<CreateCall("availability", "critical", AvailabilityDown, "timeout", e, "system")>>
    ELSE <<>>

\* the two add_metric calls of a response: response_time, then availability
CheckEndpointMetrics(st, e, outcome, rt, t, stored1, stored2) ==
    IF outcome \in {"ok", "http_error"} THEN
        AddMetricOn(AddMetricOn(st, "response_time", rt, e, t, stored1),
                    "availability",
                    IF outcome = "ok" THEN AvailabilityUp ELSE AvailabilityDown,
                    e, t, stored2)
    ELSE st

CheckEndpointOn(as, st, e, outcome, rt, t, stored1, stored2) ==
    LET st2 == CheckEndpointMetrics(st, e, outcome, rt, t, stored1, stored2)
        r   == RunCalls(as, CheckEndpointCalls(e, outcome, rt), t)
    IN  [alerts |-> r.alerts, buffer |-> st2.buffer, table |-> st2.table,
         raised |-> r.raised /\ outcome = "timeout"]

\* the samples of the add_metric calls of check_endpoint, in call order
CheckEndpointSamples(e, outcome, rt, t) ==
    IF outcome \in {"ok", "http_error"} THEN
        << Metric("response_time", rt, e, t),
           Metric("availability",
                  IF outcome = "ok" THEN AvailabilityUp ELSE AvailabilityDown, e, t) >>
    ELSE <<>>

\* number of add_metric calls check_endpoint makes
AddsOf(outcome) == IF outcome \in {"ok", "http_error"} THEN 2 ELSE 0

----------------------------------------------------------------------------------------------------------------------------------------
(* The monitor, one call at a time *)

Threads == {"system", "endpoints", "analytics"}

\* what the INSERT of store_metric can end in: stored, or failed and logged
StoreOutcomes == {TRUE, FALSE}

\* The monitor has already recorded k quiet cpu_usage samples, all stored, `age`
\* hours ago: none of them reaches a threshold, deviates or predicts a breach,
\* so no alert exists.
QuietValue == CHOOSE v \in CpuValues : \A w \in CpuValues : v <= w
WarmUp(k, age) == [i \in 1..k |-> Metric("cpu_usage", QuietValue, "system", 0 - age)]

\* the monitor after __init__, with one of the given histories, under one of
\* the given configurations and fault conditions
----------------------------------------------------------------------------
(* The standalone AIPerformanceMonitor (ai-performance-monitor.py) *)

\* no monitor_once call has been made yet
NoReport == [cpu_percent |-> 0, memory_percent |-> 0, anomalies |-> <<>>, alerts |-> <<>>]

\* config["thresholds"] and config["endpoints"] of _load_config
StandaloneThresholds ==
    [cpu_warning |-> 70, cpu_critical |-> 90, memory_warning |-> 75, memory_critical |-> 90]

StandaloneEndpoints == <<"https://httpbin.org/status/200", "https://api.github.com/users/octocat">>

\* list(xs)[-n:]
LastOf(xs, n) == IF Len(xs) > n THEN SubSeq(xs, Len(xs) - n + 1, Len(xs)) ELSE xs

\* abs(current - np.mean(recent)) > self.anomaly_threshold * np.std(recent).
\* np.std is the population deviation: with n values of sum S,
\* mean = S / n and std^2 = SpreadOf / n^2, so the test is
\* (n current - S)^2 > anomaly_threshold^2 SpreadOf, in integers.
Deviates(current, recent) ==
    LET n == Len(recent)
        S == SumOf(recent)
    IN  (n * current - S) * (n * current - S)
            > AnomalyThreshold * AnomalyThreshold * SpreadOf(recent)

RecentOf(history, field) ==
    LET recent == LastOf(history, RecentWindow) IN
        [i \in 1..Len(recent) |-> recent[i][field]]

\* detect_anomalies(current_metrics): the metrics it reports as anomalous
StandaloneAnomalies(history, current) ==
    IF Len(history) < MinHistorySamples THEN <<>>
    ELSE (IF RecentOf(history, "cpu_percent") # <<>>
             /\ Deviates(current.cpu_percent, RecentOf(history, "cpu_percent"))
          THEN <<"CPU">> ELSE <<>>)
      \o (IF RecentOf(history, "memory_percent") # <<>>
             /\ Deviates(current.memory_percent, RecentOf(history, "memory_percent"))
          THEN <<"Memory">> ELSE <<>>)

\* check_thresholds(metrics): cpu, memory, then every endpoint; the endpoints
\* that answer do so below the response time thresholds
RECURSIVE EndpointAlerts(_, _)
EndpointAlerts(endpoints, unhealthy) ==
    IF endpoints = <<>> THEN <<>>
    ELSE (IF Head(endpoints) \in unhealthy THEN <<<<"CRITICAL", Head(endpoints)>>>> ELSE <<>>)
            \o EndpointAlerts(Tail(endpoints), unhealthy)

CheckThresholds(current, unhealthy) ==
    (IF current.cpu_percent >= StandaloneThresholds.cpu_critical THEN <<<<"CRITICAL", "CPU">>>>
     ELSE IF current.cpu_percent >= StandaloneThresholds.cpu_warning THEN <<<<"WARNING", "CPU">>>>
     ELSE <<>>)
    \o (IF current.memory_percent >= StandaloneThresholds.memory_critical
           THEN <<<<"CRITICAL", "Memory">>>>
        ELSE IF current.memory_percent >= StandaloneThresholds.memory_warning
           THEN <<<<"WARNING", "Memory">>>>
        ELSE <<>>)
    \o EndpointAlerts(StandaloneEndpoints, unhealthy)

\* monitor_once: the system metrics are collected, the endpoints are checked,
\* detect_anomalies and check_thresholds judge the new sample, and the sample
\* is appended to the history (a deque of maxlen 1000) afterwards
MonitorOnce(cpu, memory, unhealthy) ==
    /\ Len(metrics_history) < MaxHistory
    /\ LET current == [cpu_percent |-> cpu, memory_percent |-> memory] IN
          /\ report' = [cpu_percent |-> cpu, memory_percent |-> memory,
                        anomalies |-> StandaloneAnomalies(metrics_history, current),
                        alerts |-> CheckThresholds(current, unhealthy)]
          /\ metrics_history' = LastOf(Append(metrics_history, current), HistoryMaxLen)
    /\ UNCHANGED <<metrics_buffer, metrics_table, alerts, now, adds, last, monitoring, pc,
                   pending, config, websocket_clients, log, faults, threads>>

----------------------------------------------------------------------------

InitWith(histories, configs, conditions) ==
    /\ \E h \in histories :
          /\ metrics_table = WarmUp(h[1], h[2])
          /\ metrics_buffer = Truncate(WarmUp(h[1], h[2]))
    /\ alerts = <<>>
    /\ now = 0
    /\ adds = 0
    /\ last = Call("init", None, 0, None, None, FALSE)
    /\ monitoring = FALSE
    /\ pc = [th \in Threads |-> "idle"]
    /\ pending = [th \in Threads |-> <<>>]
    /\ config \in configs
    /\ websocket_clients = {}
    /\ log = <<>>
    /\ faults \in conditions
    /\ threads = <<>>
    /\ metrics_history = <<>>
    /\ report = NoReport

\* the monitor under the default configuration, with nothing failing
InitFrom(histories) == InitWith(histories, {DefaultConfig}, {NoFaults})

AddMetric(m, v, s, stored) ==
    /\ adds < MaxAdds
    /\ LET st == AddMetricOn(Store, m, v, s, now, stored) IN
          /\ metrics_buffer' = st.buffer
          /\ metrics_table' = st.table
    /\ LET b == BroadcastMetric(websocket_clients, Metric(m, v, s, now)) IN
          /\ websocket_clients' = b.clients
          /\ log' = log \o b.events
    /\ adds' = adds + 1
    /\ last' = Call("add_metric", m, v, s, IF stored THEN None ELSE "store_failed", FALSE)
    /\ UNCHANGED <<alerts, now, monitoring, pc, pending, config, faults, threads, metrics_history, report>>

CheckAlerts(m, v, s) ==
    /\ LET r == CheckAlertsOn(alerts, m, v, s, now) IN
          /\ Len(r.alerts) <= MaxAlerts
          /\ alerts' = r.alerts
          /\ log' = log \o CreateEvents(alerts, r.alerts)
          /\ last' = Call("check_alerts", m, v, s, None, r.raised)
    /\ UNCHANGED <<metrics_buffer, metrics_table, now, adds, monitoring, pc, pending,
                   config, websocket_clients, faults, threads, metrics_history, report>>

CheckEndpoint(e, outcome, rt, stored1, stored2) ==
    /\ adds + AddsOf(outcome) <= MaxAdds
    /\ LET r == CheckEndpointOn(alerts, Store, e, outcome, rt, now, stored1, stored2)
           b == BroadcastAll(websocket_clients, CheckEndpointSamples(e, outcome, rt, now))
       IN
          /\ Len(r.alerts) <= MaxAlerts
          /\ alerts' = r.alerts
          /\ metrics_buffer' = r.buffer
          /\ metrics_table' = r.table
          /\ websocket_clients' = b.clients
          /\ log' = log \o b.events \o CreateEvents(alerts, r.alerts)
          /\ last' = Call("check_endpoint", "availability", rt, e, outcome, r.raised)
    /\ adds' = adds + AddsOf(outcome)
    /\ UNCHANGED <<now, monitoring, pc, pending, config, faults, threads, metrics_history, report>>

DetectAnomalies ==
    /\ LET r == DetectAnomaliesOn(alerts, metrics_buffer, now) IN
          /\ Len(r.alerts) <= MaxAlerts
          /\ alerts' = r.alerts
          /\ log' = log \o CreateEvents(alerts, r.alerts)
          /\ last' = Call("detect_anomalies", None, 0, None, None, r.raised)
    /\ UNCHANGED <<metrics_buffer, metrics_table, now, adds, monitoring, pc, pending,
                   config, websocket_clients, faults, threads, metrics_history, report>>

GeneratePredictiveAlerts ==
    /\ LET r == GeneratePredictiveAlertsOn(alerts, metrics_table, now) IN
          /\ Len(r.alerts) <= MaxAlerts
          /\ alerts' = r.alerts
          /\ log' = log \o CreateEvents(alerts, r.alerts)
          /\ last' = Call("generate_predictive_alerts", None, 0, None, None, r.raised)
    /\ UNCHANGED <<metrics_buffer, metrics_table, now, adds, monitoring, pc, pending,
                   config, websocket_clients, faults, threads, metrics_history, report>>

\* an hour passes
Tick ==
    /\ now < MaxNow
    /\ now' = now + 1
    /\ UNCHANGED <<metrics_buffer, metrics_table, alerts, adds, last, monitoring, pc, pending,
                   config, websocket_clients, log, faults, threads, metrics_history, report>>

----------------------------------------------------------------------------------------------------------------------------------------
(* Spec: the alert engine under threshold and endpoint triggers.  The monitor *)
(* starts empty; check_alerts and check_endpoint are called in any order.     *)

\* a response only takes a measured time; a timeout or a failure has none
EndpointInputs ==
    ({"ok", "http_error"} \X ResponseTimes) \cup ({"timeout", "conn_error"} \X {0})

Init == InitFrom({<<0, 0>>})

Next ==
    \/ \E x \in ThresholdInputs : CheckAlerts(x[1], x[2], x[3])
    \/ \E e \in Endpoints, x \in EndpointInputs :
          \E stored1 \in StoreOutcomes, stored2 \in StoreOutcomes :
             CheckEndpoint(e, x[1], x[2], stored1, stored2)

Spec == Init /\ [][Next]_vars

----------------------------------------------------------------------------
(* SpecAnalytics: the analytics cycle.  The monitor starts with a history of  *)
(* quiet cpu_usage samples around the two gates (10 values, 20 rows), fresh,  *)
(* or a day old; spikes are added (every INSERT succeeding), time passes, and *)
(* check_alerts, detect_anomalies and generate_predictive_alerts run in any   *)
(* order.                                                                     *)

\* <<number of samples, their age in hours>>
WarmUps ==
    ({MinAnomalyPoints - 1, MinAnomalyPoints, MinHistoryPoints - 1, MinHistoryPoints}
        \X {0})
        \cup {<<MinHistoryPoints, HistoryHours>>}

\* samples add_metric is called with: a spike of cpu_usage or of memory_usage
SpikeValue == CHOOSE v \in CpuValues : \A w \in CpuValues : v >= w
AnalyticsMetricInputs == {"cpu_usage", "memory_usage"} \X {SpikeValue} \X {"system"}

AnalyticsThresholdInputs ==
    ({"cpu_usage"} \X CpuValues \X {"system"})
        \cup ({"memory_usage"} \X {SpikeValue} \X {"system"})

InitAnalytics == InitFrom(WarmUps)

NextAnalytics ==
    \/ \E x \in AnalyticsMetricInputs : AddMetric(x[1], x[2], x[3], TRUE)
    \/ \E x \in AnalyticsThresholdInputs : CheckAlerts(x[1], x[2], x[3])
    \/ DetectAnomalies
    \/ GeneratePredictiveAlerts
    \/ Tick

SpecAnalytics == InitAnalytics /\ [][NextAnalytics]_vars

----------------------------------------------------------------------------------------------------------------------------------------
(* SpecThreads: the three monitoring threads of start_monitoring, running     *)
(* concurrently on the shared buffer and alert list, until stop_monitoring.   *)
(* A thread that has work                                                     *)
(* in `pending` is inside a tick; between the existing-alert test of          *)
(* create_alert and its self.alerts.append another thread may run.            *)
(* monitor_system_metrics is followed for its cpu_usage reading.              *)

\* after detect_anomalies, ai_analytics_loop goes on to generate_predictive_alerts
ThenPredict == CreateCall(None, None, 0, "generate_predictive_alerts", None, None)

IsCreateCall(c) == c.kind # "generate_predictive_alerts"

AtTickBoundary(th) == monitoring /\ pc[th] = "idle" /\ pending[th] = <<>>

\* the loops of the monitor: the targets of the threads that test self.monitoring
Loops == <<"monitor_system_metrics", "monitor_web_endpoints", "ai_analytics_loop">>

\* a thread as threading.Thread(target=...).start() leaves it: about to test
\* the condition of its while loop.  `slice` is the list that the call of
\* add_metric it is in has cut from the buffer and not assigned yet.
Thread(target) == [target |-> target, at |-> "test", raised |-> FALSE, slice |-> <<>>]

\* the threads after start_monitoring has started its own
StartThreads(ts) ==
    ts \o [k \in 1..Len(Loops) |-> Thread(Loops[k])]
       \o (IF config.websocket THEN <<Thread("start_websocket_server")>> ELSE <<>>)

\* start_monitoring, whenever it is called: self.monitoring = True, and three
\* new threads start (and a websocket server thread, when
\* config["websocket"]["enabled"]), whatever threads are running already
StartMonitoringCall ==
    /\ Len(StartThreads(threads)) <= MaxThreads
    /\ monitoring' = TRUE
    /\ threads' = StartThreads(threads)
    /\ UNCHANGED <<metrics_buffer, metrics_table, alerts, now, adds, last, pc, pending,
                   config, websocket_clients, log, faults, metrics_history, report>>

\* start_monitoring, called once as run() does
StartMonitoring ==
    /\ ~monitoring
    /\ last.op # "stop_monitoring"
    /\ StartMonitoringCall

\* stop_monitoring: self.monitoring = False; self.executor.shutdown(wait=True)
\* waits for the tasks of the executor, to which nothing is ever submitted.
\* The monitoring threads are not joined.
StopMonitoring ==
    /\ monitoring
    /\ monitoring' = FALSE
    /\ last' = Call("stop_monitoring", None, 0, None, None, FALSE)
    /\ UNCHANGED <<metrics_buffer, metrics_table, alerts, now, adds, pc, pending,
                   config, websocket_clients, log, faults, threads, metrics_history, report>>

\* monitor_system_metrics, one round up to its check_alerts call: the reading
\* is added, and check_alerts is about to make its create_alert call
SystemTick(v, stored) ==
    /\ AtTickBoundary("system")
    /\ adds < MaxAdds
    /\ LET st == AddMetricOn(Store, "cpu_usage", v, "system", now, stored) IN
          /\ metrics_buffer' = st.buffer
          /\ metrics_table' = st.table
    /\ LET b == BroadcastMetric(websocket_clients, Metric("cpu_usage", v, "system", now)) IN
          /\ websocket_clients' = b.clients
          /\ log' = log \o b.events
    /\ adds' = adds + 1
    /\ pending' = [pending EXCEPT !["system"] = CheckAlertsCalls("cpu_usage", v, "system")]
    /\ UNCHANGED <<alerts, now, last, monitoring, pc, config, faults, threads, metrics_history, report>>

\* monitor_web_endpoints, one check_endpoint call up to its first create_alert
EndpointTick(e, outcome, rt, stored1, stored2) ==
    /\ AtTickBoundary("endpoints")
    /\ adds + AddsOf(outcome) <= MaxAdds
    /\ LET st == CheckEndpointMetrics(Store, e, outcome, rt, now, stored1, stored2) IN
          /\ metrics_buffer' = st.buffer
          /\ metrics_table' = st.table
    /\ LET b == BroadcastAll(websocket_clients, CheckEndpointSamples(e, outcome, rt, now)) IN
          /\ websocket_clients' = b.clients
          /\ log' = log \o b.events
    /\ adds' = adds + AddsOf(outcome)
    /\ pending' = [pending EXCEPT !["endpoints"] = CheckEndpointCalls(e, outcome, rt)]
    /\ UNCHANGED <<alerts, now, last, monitoring, pc, config, faults, threads, metrics_history, report>>

\* ai_analytics_loop, detect_anomalies up to its first create_alert: the window
\* statistics are taken from the buffer as it is now
AnalyticsDetect ==
    /\ AtTickBoundary("analytics")
    /\ pending' = [pending EXCEPT !["analytics"] =
                      DetectAnomaliesCalls(metrics_buffer, now) \o <<ThenPredict>>]
    /\ UNCHANGED <<metrics_buffer, metrics_table, alerts, now, adds, last, monitoring, pc,
                   config, websocket_clients, log, faults, threads, metrics_history, report>>

\* ai_analytics_loop, generate_predictive_alerts up to its first create_alert
AnalyticsPredict ==
    /\ pc["analytics"] = "idle"
    /\ pending["analytics"] # <<>>
    /\ ~IsCreateCall(Head(pending["analytics"]))
    /\ pending' = [pending EXCEPT !["analytics"] =
                      GeneratePredictiveAlertsCalls(metrics_table, now)]
    /\ UNCHANGED <<metrics_buffer, metrics_table, alerts, now, adds, last, monitoring, pc,
                   config, websocket_clients, log, faults, threads, metrics_history, report>>

\* create_alert, lines 404-411: the existing-alert test.  AttributeError leaves
\* the caller up to the try/except of its loop: the rest of the tick is dropped.
BeginCreate(th) ==
    /\ pc[th] = "idle"
    /\ pending[th] # <<>>
    /\ IsCreateCall(Head(pending[th]))
    /\ LET c        == Head(pending[th])
           existing == ExistingAlert(alerts, c.metric_type, c.source)
       IN  IF existing = "AttributeError"
              THEN pending' = [pending EXCEPT ![th] = <<>>] /\ pc' = pc
           ELSE IF existing # None
              THEN pending' = [pending EXCEPT ![th] = Tail(pending[th])] /\ pc' = pc
           ELSE pending' = pending /\ pc' = [pc EXCEPT ![th] = "append"]
    /\ UNCHANGED <<metrics_buffer, metrics_table, alerts, now, adds, last, monitoring,
                   config, websocket_clients, log, faults, threads, metrics_history, report>>

\* create_alert, lines 413-427: the alert is built and appended
FinishCreate(th) ==
    /\ pc[th] = "append"
    /\ Len(alerts) < MaxAlerts
    /\ LET c == Head(pending[th]) IN
          /\ alerts' = Append(alerts, Alert(c.metric_type, c.severity, c.current_value,
                                            c.kind, c.about, c.source, now))
          /\ log' = log \o CreateEvents(alerts, alerts')
    /\ pending' = [pending EXCEPT ![th] = Tail(pending[th])]
    /\ pc' = [pc EXCEPT ![th] = "idle"]
    /\ UNCHANGED <<metrics_buffer, metrics_table, now, adds, last, monitoring,
                   config, websocket_clients, faults, threads, metrics_history, report>>

\* the monitor has recorded MinAnomalyPoints quiet samples, or none
InitThreads == InitFrom({<<0, 0>>, <<MinAnomalyPoints, 0>>})

NextThreads ==
    \/ StartMonitoring
    \/ StopMonitoring
    \/ \E v \in CpuValues, stored \in StoreOutcomes : SystemTick(v, stored)
    \/ \E e \in Endpoints, x \in EndpointInputs :
          \E stored1 \in StoreOutcomes, stored2 \in StoreOutcomes :
             EndpointTick(e, x[1], x[2], stored1, stored2)
    \/ AnalyticsDetect
    \/ AnalyticsPredict
    \/ \E th \in Threads : BeginCreate(th)
    \/ \E th \in Threads : FinishCreate(th)

SpecThreads == InitThreads /\ [][NextThreads]_vars

----------------------------------------------------------------------------
(* SpecNotify: what the monitor sends out.  Notification channels and the     *)
(* websocket server are enabled; the INSERT of store_alert and the posts of   *)
(* slack and webhook fail or not; clients connect once the monitor is         *)
(* started; add_metric and check_alerts are called in any order.              *)

\* the websocket clients that may connect
Clients == {"c1", "c2"}

\* handle_client: a client connects to the server that start_monitoring started
ClientConnects(c) ==
    /\ monitoring
    /\ config.websocket
    /\ c \notin websocket_clients
    /\ websocket_clients' = websocket_clients \cup {c}
    /\ UNCHANGED <<metrics_buffer, metrics_table, alerts, now, adds, last, monitoring,
                   pc, pending, config, log, faults, threads, metrics_history, report>>

\* handle_client: wait_closed() returns and the client is discarded
ClientDisconnects(c) ==
    /\ c \in websocket_clients
    /\ websocket_clients' = websocket_clients \ {c}
    /\ UNCHANGED <<metrics_buffer, metrics_table, alerts, now, adds, last, monitoring,
                   pc, pending, config, log, faults, threads, metrics_history, report>>

\* user configurations that enable the websocket server and notification
\* channels: all three, or email and webhook
NotifyConfigs ==
    { [DefaultConfig EXCEPT !.notifications = n, !.websocket = TRUE] :
        n \in {{"email", "slack", "webhook"}, {"email", "webhook"}} }

FaultConditions ==
    { [store_alert |-> f, channels |-> c] : f \in BOOLEAN, c \in SUBSET FallibleChannels }

\* the samples add_metric is called with, and the readings check_alerts is
\* called with
NotifyMetricInputs == {"cpu_usage"} \X {SpikeValue} \X {"system"}
NotifyThresholdInputs == {"cpu_usage"} \X CpuValues \X {"system"}

InitNotify == InitWith({<<0, 0>>}, NotifyConfigs, FaultConditions)

NextNotify ==
    \/ StartMonitoring
    \/ \E c \in Clients : ClientConnects(c)
    \/ \E c \in Clients : ClientDisconnects(c)
    \/ \E x \in NotifyMetricInputs, stored \in StoreOutcomes :
          AddMetric(x[1], x[2], x[3], stored)
    \/ \E x \in NotifyThresholdInputs : CheckAlerts(x[1], x[2], x[3])

SpecNotify == InitNotify /\ [][NextNotify]_vars

----------------------------------------------------------------------------
(* SpecRetention: the running monitor and its store as time passes.  The      *)
(* metrics table holds a sample that is exactly as old as the retention       *)
(* window; the system thread collects, the analytics thread runs round after  *)
(* round, the alerts they trigger are created, and the clock advances.  The   *)
(* threads never stop for good: a step is taken whenever one is possible.     *)

\* the retention window in hours
RetentionHours == config.retention_days * 24

InitRetention == InitFrom({<<1, RetentionDays * 24>>})

NextRetention ==
    \/ StartMonitoring
    \/ \E v \in CpuValues, stored \in StoreOutcomes : SystemTick(v, stored)
    \/ AnalyticsDetect
    \/ AnalyticsPredict
    \/ \E th \in Threads : BeginCreate(th)
    \/ \E th \in Threads : FinishCreate(th)
    \/ Tick

SpecRetention == InitRetention /\ [][NextRetention]_vars /\ WF_vars(NextRetention)

----------------------------------------------------------------------------
(* SpecConfig: the monitor constructed from a user configuration file.  The   *)
(* file is absent, or raises the warning bound of cpu_usage above its         *)
(* critical bound, or adds a rule without a critical bound, or lists an       *)
(* endpoint without a name.  The monitor is started and stopped and           *)
(* check_alerts is called.                                                    *)

\* the content of the user's configuration file
EmptyDict == [k \in {} |-> 0]
UserConfigs ==
    { EmptyDict,
      [alerts |-> [cpu_usage |-> [warning |-> 95]]],
      [alerts |-> [queue_length |-> [warning |-> 5]]],
      [endpoints |-> << [url |-> "https://example.com"] >>] }

\* the readings check_alerts is called with
QueueLength == 7
ConfigThresholdInputs ==
    ({"cpu_usage"} \X CpuValues \X {"system"})
        \cup {<<"queue_length", QueueLength, "system">>}

InitConfig == InitWith({<<0, 0>>}, {LoadConfig(u) : u \in UserConfigs}, {NoFaults})

NextConfig ==
    \/ StartMonitoring
    \/ StopMonitoring
    \/ \E x \in ConfigThresholdInputs : CheckAlerts(x[1], x[2], x[3])

SpecConfig == InitConfig /\ [][NextConfig]_vars

----------------------------------------------------------------------------
(* SpecTicks: the collector loops, one whole tick at a time.  A tick of       *)
(* monitor_system_metrics reads the system, adds its five samples and         *)
(* evaluates cpu_usage, memory_usage and disk_usage; a tick of                *)
(* monitor_web_endpoints checks the configured endpoints in list order.  An   *)
(* exception that leaves the body of a loop is logged by the loop's except    *)
(* clause and the loop goes on to its next tick.                              *)

\* samples one tick of monitor_system_metrics adds
SamplesPerTick == 5

\* psutil.net_io_counters(): the byte counters are only recorded
NetworkBytes == 1000

\* the samples of one tick of monitor_system_metrics, in add_metric order
SystemSamples(cpu, mem, disk, t) ==
    << Metric("cpu_usage", cpu, "system", t),
       Metric("memory_usage", mem, "system", t),
       Metric("disk_usage", disk, "system", t),
       Metric("network_bytes_sent", NetworkBytes, "system", t),
       Metric("network_bytes_recv", NetworkBytes, "system", t) >>

\* several add_metric calls in a row on the buffer and the table
RECURSIVE AddAll(_, _, _)
AddAll(st, samples, stored) ==
    IF samples = <<>> THEN st
    ELSE AddAll(AddMetricOn(st, Head(samples).metric_type, Head(samples).value,
                            Head(samples).source, Head(samples).timestamp, stored),
                Tail(samples), stored)

\* self.check_alerts("cpu_usage", ...); self.check_alerts("memory_usage", ...);
\* self.check_alerts("disk_usage", ...): one after the other, until one raises.
\* `evaluated` counts the check_alerts calls that were made.
RECURSIVE RunChecks(_, _, _, _)
RunChecks(as, readings, s, t) ==
    IF readings = <<>> THEN [alerts |-> as, evaluated |-> 0, raised |-> FALSE]
    ELSE LET r == CheckAlertsOn(as, Head(readings)[1], Head(readings)[2], s, t) IN
         IF r.raised THEN [alerts |-> r.alerts, evaluated |-> 1, raised |-> TRUE]
         ELSE LET rest == RunChecks(r.alerts, Tail(readings), s, t) IN
              [rest EXCEPT !.evaluated = @ + 1]

\* one round of the while loop of monitor_system_metrics
MonitorSystemMetrics(cpu, mem, disk, stored) ==
    /\ monitoring
    /\ adds + SamplesPerTick <= MaxTickSamples
    /\ LET samples == SystemSamples(cpu, mem, disk, now)
           st      == AddAll(Store, samples, stored)
           b       == BroadcastAll(websocket_clients, samples)
           r       == RunChecks(alerts, << <<"cpu_usage", cpu>>, <<"memory_usage", mem>>,
                                           <<"disk_usage", disk>> >>, "system", now)
       IN  /\ Len(r.alerts) <= MaxAlerts
           /\ metrics_buffer' = st.buffer
           /\ metrics_table' = st.table
           /\ websocket_clients' = b.clients
           /\ alerts' = r.alerts
           /\ log' = log \o b.events \o CreateEvents(alerts, r.alerts)
           /\ last' = Call("monitor_system_metrics", None, r.evaluated, "system", None, r.raised)
    /\ adds' = adds + SamplesPerTick
    /\ UNCHANGED <<now, monitoring, pc, pending, config, faults, threads, metrics_history, report>>

\* for endpoint in self.config["endpoints"]: self.check_endpoint(endpoint),
\* until a check_endpoint call raises.  outs[i] is what the request to the
\* i-th endpoint ends in.  `checked` counts the check_endpoint calls made.
RECURSIVE RunEndpoints(_, _, _, _, _)
RunEndpoints(st, endpoints, outs, stored, t) ==
    IF endpoints = <<>> THEN st
    ELSE LET e  == Head(endpoints).name
             o  == Head(outs)
             r  == CheckEndpointOn(st.alerts, [buffer |-> st.buffer, table |-> st.table],
                                   e, o[1], o[2], t, stored, stored)
             b  == BroadcastAll(st.clients, CheckEndpointSamples(e, o[1], o[2], t))
             st2 == [ alerts  |-> r.alerts,
                      buffer  |-> r.buffer,
                      table   |-> r.table,
                      clients |-> b.clients,
                      events  |-> st.events \o b.events \o CreateEvents(st.alerts, r.alerts),
                      added   |-> st.added + AddsOf(o[1]),
                      checked |-> st.checked + 1,
                      raised  |-> r.raised ]
         IN  IF r.raised THEN st2
             ELSE RunEndpoints(st2, Tail(endpoints), Tail(outs), stored, t)

\* one round of the while loop of monitor_web_endpoints
MonitorWebEndpoints(outs, stored) ==
    /\ monitoring
    /\ LET r == RunEndpoints([ alerts |-> alerts, buffer |-> metrics_buffer,
                               table |-> metrics_table, clients |-> websocket_clients,
                               events |-> <<>>, added |-> 0, checked |-> 0,
                               raised |-> FALSE ],
                             config.endpoints, outs, stored, now)
       IN  /\ adds + r.added <= MaxTickSamples
           /\ Len(r.alerts) <= MaxAlerts
           /\ metrics_buffer' = r.buffer
           /\ metrics_table' = r.table
           /\ websocket_clients' = r.clients
           /\ alerts' = r.alerts
           /\ log' = log \o r.events
           /\ adds' = adds + r.added
           /\ last' = Call("monitor_web_endpoints", None, r.checked, None, None, r.raised)
    /\ UNCHANGED <<now, monitoring, pc, pending, config, faults, threads, metrics_history, report>>

\* what the request of a tick to one endpoint ends in
TickEndpointInputs ==
    {<<"ok", 100>>, <<"http_error", 100>>, <<"timeout", 0>>, <<"conn_error", 0>>}

\* the readings of a tick: cpu and memory quiet or above critical, disk quiet
TickReadings == {QuietValue, SpikeValue}

InitTicks == InitFrom({<<0, 0>>})

NextTicks ==
    \/ StartMonitoring
    \/ \E cpu \in TickReadings, mem \in TickReadings :
          MonitorSystemMetrics(cpu, mem, QuietValue, TRUE)
    \/ \E outs \in [1..Len(DefaultConfig.endpoints) -> TickEndpointInputs] :
          MonitorWebEndpoints(outs, TRUE)

SpecTicks == InitTicks /\ [][NextTicks]_vars

----------------------------------------------------------------------------
(* SpecWindow: the anomaly window as samples come and go.  The buffer holds   *)
(* quiet cpu_usage samples around the gate of 10; quiet samples and spikes    *)
(* are added, time passes, and check_alerts and detect_anomalies run.         *)

WindowMetricInputs == {"cpu_usage"} \X {QuietValue, SpikeValue} \X {"system"}

InitWindow == InitFrom({<<MinAnomalyPoints - 1, 0>>, <<MinAnomalyPoints, 0>>})

NextWindow ==
    \/ \E x \in WindowMetricInputs : AddMetric(x[1], x[2], x[3], TRUE)
    \/ \E x \in NotifyThresholdInputs : CheckAlerts(x[1], x[2], x[3])
    \/ DetectAnomalies
    \/ Tick

SpecWindow == InitWindow /\ [][NextWindow]_vars

----------------------------------------------------------------------------
(* SpecLifecycle: the threads of the monitor as start_monitoring and          *)
(* stop_monitoring are called in any order.  Each loop thread tests           *)
(* self.monitoring, runs a tick that ends normally or in the except clause,   *)
(* sleeps, and tests again.  What a tick does to the buffer and the alerts is *)
(* the subject of the other specifications; here it is where a tick ends.     *)

\* Where a loop thread goes next: `while self.monitoring:` enters the body or
\* leaves the function; the body ends in the time.sleep of the try block or,
\* after an exception, in the time.sleep of the except clause; after either
\* sleep the condition is tested again.
\* A faulty variant whose except clause starts the next tick without testing
\* the flag.
NextPositionRetrying(at, flag, raised) ==
    CASE at = "test" -> IF flag THEN "tick" ELSE "done"
      [] at = "tick" -> IF raised THEN "except_sleep" ELSE "sleep"
      [] at = "sleep" -> "test"
      [] at = "except_sleep" -> "tick"
      [] OTHER -> at

NextPosition(at, flag, raised) ==
    CASE at = "test" -> IF flag THEN "tick" ELSE "done"
      [] at = "tick" -> IF raised THEN "except_sleep" ELSE "sleep"
      [] at \in {"sleep", "except_sleep"} -> "test"
      [] OTHER -> at

IsLoop(i) == i \in DOMAIN threads /\ \E k \in DOMAIN Loops : threads[i].target = Loops[k]

Moves(i, raised) ==
    /\ threads' = [threads EXCEPT ![i].at = NextPosition(threads[i].at, monitoring, raised),
                                  ![i].raised = raised]
    /\ UNCHANGED <<metrics_buffer, metrics_table, alerts, now, adds, last, monitoring,
                   pc, pending, config, websocket_clients, log, faults, metrics_history, report>>

\* while self.monitoring:
LoopTest(i) ==
    /\ IsLoop(i)
    /\ threads[i].at = "test"
    /\ Moves(i, threads[i].raised)

\* the try block of the loop up to its sleep, or up to the except clause
LoopTick(i, raised) ==
    /\ IsLoop(i)
    /\ threads[i].at = "tick"
    /\ Moves(i, raised)

\* time.sleep(...) returns
LoopSleep(i) ==
    /\ IsLoop(i)
    /\ threads[i].at \in {"sleep", "except_sleep"}
    /\ Moves(i, threads[i].raised)

ThreadStep(i) ==
    \/ LoopTest(i)
    \/ \E raised \in BOOLEAN : LoopTick(i, raised)
    \/ LoopSleep(i)

InitLifecycle == InitFrom({<<0, 0>>})

NextLifecycle ==
    \/ StartMonitoringCall
    \/ StopMonitoring
    \/ \E i \in 1..MaxThreads : LoopTest(i)
    \/ \E i \in 1..MaxThreads, raised \in BOOLEAN : LoopTick(i, raised)
    \/ \E i \in 1..MaxThreads : LoopSleep(i)

SpecLifecycle == InitLifecycle /\ [][NextLifecycle]_vars

\* The monitor as run() drives it: started once and stopped, with no later
\* start.  Every started thread is scheduled again and again, the blocking
\* calls of a tick return (psutil.cpu_percent(interval=1), requests.get with
\* the timeout of the endpoint, the sqlite queries), and time.sleep returns.
NextLifecycleOnce ==
    \/ StartMonitoring
    \/ StopMonitoring
    \/ \E i \in 1..MaxThreads : LoopTest(i)
    \/ \E i \in 1..MaxThreads, raised \in BOOLEAN : LoopTick(i, raised)
    \/ \E i \in 1..MaxThreads : LoopSleep(i)

SpecLifecycleFair ==
    /\ InitLifecycle
    /\ [][NextLifecycleOnce]_vars
    /\ \A i \in 1..MaxThreads : WF_vars(ThreadStep(i))

----------------------------------------------------------------------------
(* SpecBuffer: add_metric statement by statement.  The buffer is full; the    *)
(* system collector and the endpoint collector are in their ticks and call    *)
(* add_metric, each call running its append, its length test, the slice and   *)
(* the assignment of the slice as separate steps that interleave with the     *)
(* other thread's.  Every INSERT of store_metric goes through, so that the    *)
(* metrics table lists the appended samples in the order of their append.     *)

\* the threads that call add_metric, and the samples they add
Collectors == {"monitor_system_metrics", "monitor_web_endpoints"}

CollectorSamples(target) ==
    IF target = "monitor_system_metrics"
        THEN {"cpu_usage"} \X TickReadings \X {"system"}
        ELSE {"response_time"} \X ResponseTimes \X {DefaultConfig.endpoints[1].name}

InAddMetric(i) == threads[i].at \in {"truncate_test", "slice", "assign"}

\* add_metric, lines 330-345: the sample is appended, stored and broadcast
BeginAddMetric(i, x) ==
    /\ i \in DOMAIN threads
    /\ threads[i].target \in Collectors
    /\ x \in CollectorSamples(threads[i].target)
    /\ threads[i].at = "tick"
    /\ adds < MaxAdds
    /\ LET metric == Metric(x[1], x[2], x[3], now)
           b      == BroadcastMetric(websocket_clients, metric)
       IN  /\ metrics_buffer' = Append(metrics_buffer, metric)
           /\ metrics_table' = Append(metrics_table, metric)
           /\ websocket_clients' = b.clients
           /\ log' = log \o b.events
    /\ adds' = adds + 1
    /\ last' = Call("add_metric", x[1], x[2], x[3], None, FALSE)
    /\ threads' = [threads EXCEPT ![i].at = "truncate_test"]
    /\ UNCHANGED <<alerts, now, monitoring, pc, pending, config, faults, metrics_history, report>>

\* line 348: if len(self.metrics_buffer) > buffer_size
TestLength(i) ==
    /\ i \in DOMAIN threads
    /\ threads[i].at = "truncate_test"
    /\ threads' = [threads EXCEPT ![i].at =
                      IF Len(metrics_buffer) > BufferSize THEN "slice" ELSE "tick"]
    /\ UNCHANGED <<metrics_buffer, metrics_table, alerts, now, adds, last, monitoring,
                   pc, pending, config, websocket_clients, log, faults, metrics_history, report>>

\* line 349, right-hand side: self.metrics_buffer[-buffer_size:] is a new list
TakeSlice(i) ==
    /\ i \in DOMAIN threads
    /\ threads[i].at = "slice"
    /\ threads' = [threads EXCEPT ![i].at = "assign", ![i].slice = Truncate(metrics_buffer)]
    /\ UNCHANGED <<metrics_buffer, metrics_table, alerts, now, adds, last, monitoring,
                   pc, pending, config, websocket_clients, log, faults, metrics_history, report>>

\* line 349, assignment: self.metrics_buffer = <the new list>
AssignSlice(i) ==
    /\ i \in DOMAIN threads
    /\ threads[i].at = "assign"
    /\ metrics_buffer' = threads[i].slice
    /\ threads' = [threads EXCEPT ![i].at = "tick", ![i].slice = <<>>]
    /\ UNCHANGED <<metrics_table, alerts, now, adds, last, monitoring,
                   pc, pending, config, websocket_clients, log, faults, metrics_history, report>>

\* the buffer holds buffer_size samples
InitBuffer == InitFrom({<<BufferSize, 0>>})

NextBuffer ==
    \/ StartMonitoring
    \/ \E i \in 1..MaxThreads : LoopTest(i)
    \/ \E i \in 1..MaxThreads :
          \E x \in CollectorSamples("monitor_system_metrics")
                    \cup CollectorSamples("monitor_web_endpoints") : BeginAddMetric(i, x)
    \/ \E i \in 1..MaxThreads : TestLength(i)
    \/ \E i \in 1..MaxThreads : TakeSlice(i)
    \/ \E i \in 1..MaxThreads : AssignSlice(i)

SpecBuffer == InitBuffer /\ [][NextBuffer]_vars

----------------------------------------------------------------------------
(* SpecStandalone: the AIPerformanceMonitor called cycle after cycle, with a  *)
(* quiet reading or a high one, and with the second endpoint answering or not *)

StandaloneReadings == {<<QuietValue, QuietValue>>, <<SpikeValue, 80>>}

InitStandalone == InitFrom({<<0, 0>>})

NextStandalone ==
    \E x \in StandaloneReadings, unhealthy \in {{}, {StandaloneEndpoints[2]}} :
        MonitorOnce(x[1], x[2], unhealthy)

SpecStandalone == InitStandalone /\ [][NextStandalone]_vars

----------------
(* Properties *)

Unresolved(as) == {i \in 1..Len(as) : ~as[i].resolved}

OpenFor(as, m, s) == {i \in Unresolved(as) : KeyOf(as[i]) = <<m, s>>}

\* the alerts a step has appended
NewAlerts == (Len(alerts) + 1)..Len(alerts')

\* C1: whatever threshold, anomaly and prediction triggers are processed one
\* after the other, no two unresolved alerts of the list were created for the
\* same (metric_type, source) key.
NoDuplicateOpenAlerts ==
    \A i \in Unresolved(alerts), j \in Unresolved(alerts) :
        i < j => KeyOf(alerts[i]) # KeyOf(alerts[j])

\* a trigger has just been refused for a key whose alert is open, next to an
\* open alert of another key
RepeatedTriggerRefused ==
    /\ last.op = "check_alerts"
    /\ last.raised
    /\ OpenFor(alerts, last.metric_type, last.source) # {}
    /\ Cardinality(Unresolved(alerts)) > 1

\* C2: when the system, endpoint and analytics threads call create_alert
\* concurrently, every unresolved alert is the only unresolved alert of its
\* (metric_type, source) key, in every interleaving of the existing-alert test
\* and the append.
OneOpenAlertPerKeyConcurrently ==
    \A i \in Unresolved(alerts) :
        Cardinality(OpenFor(alerts, KeyOf(alerts[i])[1], KeyOf(alerts[i])[2])) = 1

\* C3: an alert that check_alerts created for a value >= critical is critical,
\* and a warning alert of check_alerts has warning <= value < critical.
ThresholdMonotonicity ==
    \A i \in 1..Len(alerts) :
        alerts[i].message.kind = "threshold" =>
            LET rule == AlertConfig[alerts[i].metric_type]
                v    == alerts[i].current_value
            IN  /\ v >= rule.critical => alerts[i].severity = "critical"
                /\ alerts[i].severity = "warning" =>
                      (rule.warning <= v /\ v < rule.critical)

\* check_alerts has created a critical and a warning alert
CriticalAndWarningCreated ==
    /\ \E i \in 1..Len(alerts) :
          /\ alerts[i].message.kind = "threshold"
          /\ alerts[i].severity = "critical"
          /\ alerts[i].current_value >= AlertConfig[alerts[i].metric_type].critical
    /\ \E i \in 1..Len(alerts) :
          /\ alerts[i].message.kind = "threshold"
          /\ alerts[i].severity = "warning"

\* C4: once a sample below the warning bound has been processed for a key, the
\* alert that was open for the key is resolved and no other has been opened:
\* the key has no unresolved alert.
ResolvedBySampleBelowWarning ==
    (/\ last.op = "check_alerts"
     /\ last.value < AlertConfig[last.metric_type].warning)
        => OpenFor(alerts, last.metric_type, last.source) = {}

\* C5: once a sample at or above the critical bound has been processed for a
\* key, the unresolved alert of the key is critical (a warning is upgraded).
UpgradedByCriticalSample ==
    (/\ last.op = "check_alerts"
     /\ last.value >= AlertConfig[last.metric_type].critical)
        => \A i \in OpenFor(alerts, last.metric_type, last.source) :
              alerts[i].severity = "critical"

\* C6: alerts are deduplicated per (metric_type, source) only: once a trigger
\* for key (m, s) has been processed, an unresolved alert exists for (m, s),
\* whatever is open for another source of the same metric type.
TriggerOpensItsKey ==
    (/\ last.op = "check_alerts"
     /\ last.value >= AlertConfig[last.metric_type].warning)
        => OpenFor(alerts, last.metric_type, last.source) # {}

\* C7: a check_endpoint call whose request times out or fails has appended an
\* availability sample of value 0 and source = the endpoint's name to the
\* buffer and has written it to the store.
IsDownSample(x, e) ==
    x.metric_type = "availability" /\ x.value = AvailabilityDown /\ x.source = e

FailedCheckRecordsSample ==
    (/\ last.op = "check_endpoint"
     /\ last.outcome \in {"timeout", "conn_error"})
        => /\ metrics_buffer # <<>>
           /\ IsDownSample(metrics_buffer[Len(metrics_buffer)], last.source)
           /\ metrics_table # <<>>
           /\ IsDownSample(metrics_table[Len(metrics_table)], last.source)

\* C8: after a timeout of an endpoint (the first or a later one), exactly one
\* unresolved critical availability alert exists for that endpoint.
TimeoutLeavesOneAlert ==
    (/\ last.op = "check_endpoint"
     /\ last.outcome = "timeout")
        => Cardinality({i \in Unresolved(alerts) :
                          /\ alerts[i].metric_type = "availability"
                          /\ alerts[i].severity = "critical"
                          /\ alerts[i].message.about = last.source}) = 1

\* the values of a metric type in the anomaly window
WindowValues(m) == ValuesOf(OfType(RecentMetrics(metrics_buffer, now), m))

\* C9: every anomaly alert that a step creates is for a metric type whose
\* window holds at least 10 values of standard deviation > 0.
AnomalyGating ==
    [][ \A i \in NewAlerts :
           alerts'[i].message.kind = "anomaly" =>
               /\ Len(WindowValues(alerts'[i].metric_type)) >= MinAnomalyPoints
               /\ SpreadOf(WindowValues(alerts'[i].metric_type)) > 0 ]_vars

\* detect_anomalies has just run on a cpu_usage window that passes the gate
\* and deviates, and on a memory_usage window that holds fewer than 10 values
AnomalyRaisedAndGated ==
    /\ last.op = "detect_anomalies"
    /\ \E i \in 1..Len(alerts) :
          alerts[i].message.kind = "anomaly" /\ alerts[i].metric_type = "cpu_usage"
    /\ Len(WindowValues("memory_usage")) \in 1..(MinAnomalyPoints - 1)
    /\ \A i \in 1..Len(alerts) : alerts[i].metric_type # "memory_usage"

\* C10: every prediction alert that a step creates is a warning, for a metric
\* type with at least 20 rows in the last 24 hours.
PredictionGating ==
    [][ \A i \in NewAlerts :
           alerts'[i].message.kind = "prediction" =>
               /\ alerts'[i].severity = "warning"
               /\ Len(MetricHistory(metrics_table, alerts'[i].metric_type, now))
                     >= MinHistoryPoints ]_vars

\* generate_predictive_alerts has just predicted a breach of cpu_usage, and has
\* passed over memory_usage, whose few rows end at a value above critical
PredictionRaisedAndGated ==
    /\ last.op = "generate_predictive_alerts"
    /\ \E i \in 1..Len(alerts) :
          /\ alerts[i].message.kind = "prediction"
          /\ alerts[i].metric_type = "cpu_usage"
          /\ alerts[i].current_value >= CriticalOf("cpu_usage")
    /\ LET history == MetricHistory(metrics_table, "memory_usage", now) IN
          /\ Len(history) \in 1..(MinHistoryPoints - 1)
          /\ history[Len(history)].value >= CriticalOf("memory_usage")
    /\ \A i \in 1..Len(alerts) : alerts[i].metric_type # "memory_usage"

\* the timestamps of a history: elapsed time in hours, increasing with time
StampsOf(history) == [i \in 1..Len(history) |-> history[i].timestamp]

\* The least-squares line value = a + b t fitted over elapsed time t, evaluated
\* at time T, is >= critical.  With n points, b = SlopeNum / SlopeDen and
\* a = (sum v - b sum t) / n, so a + b T >= critical is, for SlopeDen > 0,
\*   sum v * SlopeDen + SlopeNum * (n T - sum t) >= critical * n * SlopeDen.
ElapsedFitReaches(history, T, critical) ==
    LET stamps == StampsOf(history)
        values == ValuesOf(history)
        n      == Len(history)
    IN  SumOf(values) * SlopeDen(stamps)
            + SlopeNum(stamps, values) * (n * T - SumOf(stamps))
          >= critical * n * SlopeDen(stamps)

\* the prediction alerts a step has created for a metric type
NewPredictions(m) ==
    {i \in NewAlerts :
        alerts'[i].message.kind = "prediction" /\ alerts'[i].metric_type = m}

\* C11: a run of generate_predictive_alerts that ends normally has created a
\* prediction alert for a metric type with at least 20 rows spread over more
\* than one instant exactly when the least-squares line over elapsed time,
\* evaluated 6 hours after now, is at or above the critical bound of the type.
PredictionFollowsElapsedFit ==
    [][ (last'.op = "generate_predictive_alerts" /\ ~last'.raised) =>
           \A k \in 1..Len(PredictedTypes) :
              LET m       == PredictedTypes[k]
                  history == MetricHistory(metrics_table, m, now)
              IN  (Len(history) >= MinHistoryPoints
                      /\ SlopeDen(StampsOf(history)) > 0) =>
                     ((NewPredictions(m) # {}) <=>
                         ElapsedFitReaches(history, now + PredictHorizon,
                                           CriticalOf(m))) ]_vars

\* C12: with every sample also written to the metrics table (which then lists
\* all N samples added so far, in insertion order), the buffer holds
\* min(N, BufferSize) samples, and they are the most recent ones of the table
\* in the same order: the buffer is never longer than BufferSize.
BufferHoldsMostRecent ==
    LET n == Len(metrics_table)
        c == IF n < BufferSize THEN n ELSE BufferSize
    IN  /\ Len(metrics_buffer) = c
        /\ metrics_buffer = SubSeq(metrics_table, n - c + 1, n)

\* add_metric has just been called on a full buffer: an old sample has left
\* and the new one is the last of the buffer
OldestSampleEvicted ==
    /\ last.op = "add_metric"
    /\ Len(metrics_table) > BufferSize
    /\ Len(metrics_buffer) = BufferSize
    /\ metrics_buffer[1].value = QuietValue
    /\ metrics_buffer[BufferSize].value = SpikeValue
    /\ metrics_buffer[BufferSize].timestamp = now

\* C13: every anomaly alert is keyed with the source "anomaly" and every
\* prediction alert with the source "prediction", and no run of
\* detect_anomalies or generate_predictive_alerts is cut short by an alert
\* that is open for the same metric type under another source.
SyntheticSourcesKeepApart ==
    /\ \A i \in 1..Len(alerts) :
          /\ alerts[i].message.kind = "anomaly" => KeyOf(alerts[i])[2] = "anomaly"
          /\ alerts[i].message.kind = "prediction" => KeyOf(alerts[i])[2] = "prediction"
    /\ last.op \in {"detect_anomalies", "generate_predictive_alerts"} => ~last.raised

\* the log entries a step has added
NewEvents == (Len(log) + 1)..Len(log')

\* the sends of a channel for an alert
AttemptsOf(ch, alert_id) ==
    {k \in 1..Len(log) : log[k].op = ch /\ log[k].about = alert_id}

\* C14: for every alert created, each enabled notification channel has been
\* tried exactly once, whichever other channel's send failed.
EachEnabledChannelTriedOnce ==
    \A i \in 1..Len(alerts) : \A ch \in config.notifications :
        Cardinality(AttemptsOf(ch, alerts[i].alert_id)) = 1

\* C15: a step that creates an alert while clients are subscribed has called
\* send_notifications for it and has broadcast it to the clients.
AlertCreationNotifiesAndBroadcasts ==
    [][ \A i \in NewAlerts :
           /\ \E k \in NewEvents :
                 log'[k].op = "send_notifications" /\ log'[k].about = alerts'[i].alert_id
           /\ websocket_clients # {} =>
                 \E k \in NewEvents :
                    log'[k].op = "broadcast_metric" /\ log'[k].about = alerts'[i].alert_id
      ]_vars

\* C16: a failing store write does not block the in-memory path.  An alert
\* whose store_alert INSERT failed is in the alert list, send_notifications has
\* been called for it afterwards, and the call that created it did not raise.
\* A sample whose store_metric INSERT failed is the last of the buffer,
\* broadcast_metric has been run for it when clients were subscribed, and
\* add_metric did not raise.
StoreFailureDoesNotBlock ==
    [][ /\ \A k \in NewEvents :
              (log'[k].op = "store_alert" /\ ~log'[k].ok) =>
                  /\ \E i \in 1..Len(alerts') : alerts'[i].alert_id = log'[k].about
                  /\ \E j \in NewEvents :
                        /\ j > k
                        /\ log'[j].op = "send_notifications"
                        /\ log'[j].about = log'[k].about
                  /\ ~last'.raised
        /\ (adds' = adds + 1 /\ last'.op = "add_metric" /\ last'.outcome = "store_failed") =>
              LET metric == Metric(last'.metric_type, last'.value, last'.source, now) IN
                  /\ metrics_buffer' # <<>>
                  /\ metrics_buffer'[Len(metrics_buffer')] = metric
                  /\ metrics_table' = metrics_table
                  /\ websocket_clients # {} =>
                        \E k \in NewEvents :
                           log'[k].op = "broadcast_metric" /\ log'[k].about = metric
                  /\ ~last'.raised
      ]_vars

\* an alert whose INSERT failed has been notified, and a sample whose INSERT
\* failed has been handed to broadcast_metric
UnstoredAlertAndSampleSentOut ==
    /\ \E k \in 1..Len(log) :
          /\ log[k].op = "store_alert" /\ ~log[k].ok
          /\ \E j \in 1..Len(log) :
                j > k /\ log[j].op = "send_notifications" /\ log[j].about = log[k].about
    /\ last.op = "add_metric" /\ last.outcome = "store_failed"
    /\ metrics_table = <<>>
    /\ \E k \in 1..Len(log) :
          /\ log[k].op = "broadcast_metric"
          /\ log[k].about = Metric(last.metric_type, last.value, last.source, now)

\* C17: an add_metric call made while clients are subscribed, none of whose
\* connections has failed, delivers the sample to every one of them and removes
\* none of them from the subscriber set.
BroadcastReachesSubscribers ==
    [][ (adds' = adds + 1 /\ websocket_clients # {}) =>
           /\ websocket_clients' = websocket_clients
           /\ \E k \in NewEvents :
                 log'[k].op = "broadcast_metric" /\ log'[k].to = websocket_clients
      ]_vars

\* C18: once stop_monitoring has returned, no monitoring thread is inside a
\* tick, and no step adds a sample, creates an alert or writes to the store.
NothingRunsAfterStop ==
    [][ last.op = "stop_monitoring" =>
           /\ \A th \in Threads : pc[th] = "idle" /\ pending[th] = <<>>
           /\ UNCHANGED <<metrics_buffer, metrics_table, alerts, log>> ]_vars

\* the rows of the metrics table that are older than the retention window
ExpiredRows ==
    {i \in 1..Len(metrics_table) : now - metrics_table[i].timestamp > RetentionHours}

\* C19: while the monitor runs, a stored sample that is older than the
\* retention window is eventually gone from the metrics table.
ExpiredSamplesEventuallyDeleted ==
    (monitoring /\ ExpiredRows # {}) ~> (~monitoring \/ ExpiredRows = {})

\* a threshold rule with both bounds, warning <= critical
WellFormedRule(rule) ==
    /\ {"warning", "critical"} \subseteq DOMAIN rule
    /\ rule.warning <= rule.critical

WellFormedEndpoint(endpoint) == {"name", "url"} \subseteq DOMAIN endpoint

Malformed(cfg) ==
    \/ \E m \in DOMAIN cfg.alerts : ~WellFormedRule(cfg.alerts[m])
    \/ \E i \in 1..Len(cfg.endpoints) : ~WellFormedEndpoint(cfg.endpoints[i])

\* C20: a monitor whose configuration holds a malformed threshold rule or a
\* malformed endpoint is never monitoring, and check_alerts has never been
\* called on it for a metric type whose rule is malformed.
MalformedConfigRejected ==
    Malformed(config) =>
        /\ ~monitoring
        /\ (last.op = "check_alerts" /\ last.metric_type \in DOMAIN AlertConfig) =>
              WellFormedRule(AlertConfig[last.metric_type])

\* C21: no two alerts of the alert list have the same alert_id, so that the
\* INSERT OR REPLACE of store_alert never replaces the row of another alert.
AlertIdsUnique ==
    \A i \in 1..Len(alerts), j \in 1..Len(alerts) :
        i < j => alerts[i].alert_id # alerts[j].alert_id

\* C22: in every tick of monitor_web_endpoints all configured endpoints are
\* checked, whatever the requests to the endpoints before them ended in.
EveryEndpointCheckedInTick ==
    last.op = "monitor_web_endpoints" => last.value = Len(config.endpoints)

\* C23: in every tick of monitor_system_metrics cpu_usage, memory_usage and
\* disk_usage are all evaluated, whatever the evaluation of the others ended
\* in: a reading at or above its critical bound has an unresolved alert.
SystemTypes == {"cpu_usage", "memory_usage", "disk_usage"}

EveryTypeEvaluatedInTick ==
    last.op = "monitor_system_metrics" =>
        /\ last.value = Cardinality(SystemTypes)
        /\ \A m \in SystemTypes :
              (\E i \in 1..Len(metrics_buffer) :
                  /\ metrics_buffer[i].metric_type = m
                  /\ metrics_buffer[i].timestamp = now
                  /\ metrics_buffer[i].value >= AlertConfig[m].critical)
                => \E j \in Unresolved(alerts) : alerts[j].metric_type = m

\* the samples of a metric type in the anomaly window, oldest first
WindowOf(m) == OfType(RecentMetrics(metrics_buffer, now), m)

\* C24: every anomaly alert that a step creates is for a metric type whose
\* newest sample in the window lies more than 3 standard deviations from the
\* window mean, and it reports that newest sample.
OnlyNewestSampleJudged ==
    [][ \A i \in NewAlerts :
           alerts'[i].message.kind = "anomaly" =>
               LET window == WindowOf(alerts'[i].metric_type) IN
                   /\ window # <<>>
                   /\ ZScoreAbove(window[Len(window)].value, ValuesOf(window))
                   /\ alerts'[i].current_value = window[Len(window)].value ]_vars

\* the sends of a channel for an alert among the log entries a step has added
NewAttemptsOf(ch, alert_id) ==
    {k \in NewEvents : log'[k].op = ch /\ log'[k].about = alert_id}

\* C25: failing notification channels leave the alert record alone.  For an
\* alert that a step creates while the INSERT of store_alert goes through, the
\* alert is in the alert list, its row has been written before any channel was
\* tried, whichever channel sends fail, and no channel has been tried more
\* than once for it.
ChannelFailureLeavesAlertRecord ==
    [][ \A i \in NewAlerts :
           ~faults.store_alert =>
               LET id == alerts'[i].alert_id IN
                   /\ i \in 1..Len(alerts') /\ ~alerts'[i].resolved
                   /\ \E k \in NewEvents :
                         /\ log'[k].op = "store_alert" /\ log'[k].about = id /\ log'[k].ok
                         /\ \A ch \in FallibleChannels \cup {"email"} :
                               \A j \in NewAttemptsOf(ch, id) : j > k
                   /\ \A ch \in FallibleChannels \cup {"email"} :
                         Cardinality(NewAttemptsOf(ch, id)) <= 1
      ]_vars

\* an alert has been created and its row written while every channel that can
\* fail fails: the send to slack was tried and failed
AlertRecordedWhileChannelsFail ==
    /\ faults.channels = FallibleChannels
    /\ ~faults.store_alert
    /\ "slack" \in config.notifications
    /\ \E i \in 1..Len(alerts) :
          /\ \E k \in 1..Len(log) :
                log[k].op = "store_alert" /\ log[k].about = alerts[i].alert_id /\ log[k].ok
          /\ \E k \in 1..Len(log) :
                log[k].op = "slack" /\ log[k].about = alerts[i].alert_id /\ ~log[k].ok
          /\ \A k \in 1..Len(log) :
                log[k].about = alerts[i].alert_id => log[k].op # "webhook"

\* the samples a client has received, in the order of their arrival
RECURSIVE ReceivedIn(_, _)
ReceivedIn(events, c) ==
    IF events = <<>> THEN <<>>
    ELSE LET rest == ReceivedIn(SubSeq(events, 1, Len(events) - 1), c)
             e    == events[Len(events)]
         IN  IF e.op = "broadcast_metric" /\ c \in e.to THEN Append(rest, e.about)
             ELSE rest

Running(target) ==
    {i \in DOMAIN threads : threads[i].target = target /\ threads[i].at # "done"}

\* C27: whatever start_monitoring and stop_monitoring calls are made, at most
\* one system-collector loop and at most one endpoint-collector loop are
\* running.
OneCollectorLoopEach ==
    /\ Cardinality(Running("monitor_system_metrics")) <= 1
    /\ Cardinality(Running("monitor_web_endpoints")) <= 1

\* the loop thread has left its function
HasReturned(i) == i \in DOMAIN threads /\ threads[i].at = "done"

\* C29: once monitoring is false, every loop thread leaves its function unless
\* start_monitoring is called again, whether its tick ended normally or in the
\* except clause; a thread that has left never runs again, and a tick starts
\* only when the flag was seen true.
LoopsTerminateAfterStop ==
    /\ \A i \in 1..MaxThreads :
          (IsLoop(i) /\ ~monitoring) ~> (monitoring \/ HasReturned(i))
    /\ [][ \A i \in DOMAIN threads :
              /\ threads[i].at = "done" => threads'[i].at = "done"
              /\ (threads[i].at # "tick" /\ threads'[i].at = "tick") => monitoring ]_vars

\* the monitor was stopped, and all its loops have left their function, one of
\* them after a tick that ended in the except clause and one after a tick
\* that ended normally
AllLoopsDoneAfterStop ==
    /\ ~monitoring
    /\ last.op = "stop_monitoring"
    /\ threads # <<>>
    /\ \A i \in DOMAIN threads : threads[i].at = "done"
    /\ threads[1].raised
    /\ ~threads[2].raised

\* C28: concurrent add_metric calls on a full buffer lose no appended sample.
\* Whenever no add_metric call is in progress, the buffer holds exactly the
\* most recent buffer_size of the samples appended so far, in the order of
\* their append: only the oldest samples have been evicted, and the buffer is
\* not longer than its capacity.
NoAppendedSampleLost ==
    (\A i \in DOMAIN threads : ~InAddMetric(i)) =>
        /\ metrics_buffer = Truncate(metrics_table)
        /\ Len(metrics_buffer) <= BufferSize

\* all values of the recent window of a metric are equal: its deviation is 0
FlatWindow(field) ==
    LET recent == RecentOf(metrics_history, field) IN
        \A i \in 1..Len(recent) : recent[i] = recent[1]

\* C30: a monitor_once cycle of the standalone monitor reports no anomaly
\* while fewer than 10 samples are in the history, and none for a metric whose
\* recent window has standard deviation 0, whatever the new sample's value.
NoAnomalyWithoutSpread ==
    [][ Len(metrics_history') = Len(metrics_history) + 1 =>
           /\ Len(metrics_history) < MinHistorySamples => report'.anomalies = <<>>
           /\ FlatWindow("cpu_percent") =>
                 \A k \in 1..Len(report'.anomalies) : report'.anomalies[k] # "CPU"
           /\ FlatWindow("memory_percent") =>
                 \A k \in 1..Len(report'.anomalies) : report'.anomalies[k] # "Memory"
      ]_vars

====
